---- MODULE Spec2Model ----
(***************************************************************************)
(* School billing API: invoice totals, payment ledger and account          *)
(* statements (app/services/*.py, app/routes/invoices.py).                 *)
(*                                                                         *)
(* Money.  Request bodies carry Decimal values of any scale; the columns   *)
(* are Numeric(10, 2).  A request amount is an integer number of Scale-ths *)
(* of a cent (Scale = 2: half cents), a stored amount is an integer number *)
(* of cents, and Numeric2 is the rounding the column applies on write.     *)
(* Decimal comparisons between a request amount and stored amounts are     *)
(* exact, so they are made in request units (stored * Scale).              *)
(***************************************************************************)
EXTENDS Integers, Sequences, FiniteSets, TLC

\* ------------------------------------------------------------------ bounds
MaxInvoices == 2
MaxItems == 2
MaxPayments == 2
MaxDate == 2
NProcs == 2

\* ------------------------------------------------- request input domains
Scale == 2
\* item requests [quantity, unit_price]: 0.005 and 0.01 at quantity 1 and 2,
\* one request with a zero quantity and one with a negative price
ItemInputs ==
    {[quantity |-> 1, unit_price |-> 1], [quantity |-> 2, unit_price |-> 1],
     [quantity |-> 1, unit_price |-> 2], [quantity |-> 2, unit_price |-> 2],
     [quantity |-> 0, unit_price |-> 2], [quantity |-> 1, unit_price |-> -1]}
Amounts == {0, 1, 2, 4}
Dates == 1..MaxDate
InvoiceStatus == {"pending", "paid", "overdue", "cancelled"}
Unset == "unset"
UnsetDate == 0

\* roster created through SchoolService.create / StudentService.create:
\* school_id of each student
StudentSchool == <<1, 1>>
SchoolIds == {1, 2}

\* procs: the request handlers in flight (one session and transaction each),
\* used by the specifications of concurrent requests
VARIABLES schools, students, invoices, items, payments, last, procs

vars == <<schools, students, invoices, items, payments, last, procs>>

\* ----------------------------------------------------------- pure helpers
\* Numeric(10, 2) column write: round half up to whole cents
Numeric2(x) == (x + (Scale \div 2)) \div Scale

RECURSIVE SumSeq(_)
SumSeq(s) == IF s = <<>> THEN 0 ELSE Head(s) + SumSeq(Tail(s))

RECURSIVE SumOver(_, _, _)
\* sum of f[k] over the indices k of set S
SumOver(S, f, field) ==
    IF S = {} THEN 0
    ELSE LET k == CHOOSE x \in S : TRUE
         IN f[k][field] + SumOver(S \ {k}, f, field)

\* Invoice / InvoiceItem / Payment rows, id = index in the table
LiveItems(its, inv) ==
    {k \in 1..Len(its) : its[k].invoice_id = inv /\ ~its[k].deleted}

LivePayments(pays, inv) ==
    {k \in 1..Len(pays) : pays[k].invoice_id = inv /\ ~pays[k].deleted}

\* mutant: the deleted_at filter is missing from the items query
recalculate_total_all_items(its, inv) ==
    SumOver({k \in 1..Len(its) : its[k].invoice_id = inv}, its, "total_amount")

\* mutant: the item sum is added to the total the invoice already has
recalculate_total_accumulating(its, inv) ==
    invoices[inv].total_amount + SumOver(LiveItems(its, inv), its, "total_amount")

\* InvoiceService.recalculate_total: sum of the non-deleted items' totals
recalculate_total(its, inv) == SumOver(LiveItems(its, inv), its, "total_amount")

\* PaymentService.create: total_paid = sum(p.amount for p in existing_payments)
total_paid(pays, inv) == SumOver(LivePayments(pays, inv), pays, "amount")

\* InvoiceService.get_by_id: the invoice exists and is not soft-deleted
get_by_id(invs, inv) == inv \in 1..Len(invs) /\ ~invs[inv].deleted

\* InvoiceService.get_item: item of that invoice, not soft-deleted
get_item(its, inv, it) ==
    it \in 1..Len(its) /\ its[it].invoice_id = inv /\ ~its[it].deleted

\* mutant: only the quantity validator
item_valid_quantity_only(x) == x.quantity > 0

\* InvoiceItemCreate validators
item_valid(x) == x.quantity > 0 /\ x.unit_price >= 0

\* item_total = Decimal(str(quantity)) * unit_price   (request units)
item_total(x) == x.quantity * x.unit_price

NewItem(inv, x) ==
    [invoice_id |-> inv, quantity |-> x.quantity,
     unit_price |-> Numeric2(x.unit_price),
     total_amount |-> Numeric2(item_total(x)), deleted |-> FALSE]

\* HTTP outcome of the last request; remaining is the amount reported by
\* the overpayment error (0 for every other outcome)
Result(outcome, remaining) == [outcome |-> outcome, remaining |-> remaining]

Procs == 1..NProcs

\* a handler's session: its position, its request and what it has read
Idle ==
    [pc |-> "idle", outcome |-> "none", invoice |-> 0, item |-> 0, amount |-> 0,
     quantity |-> 0, unit_price |-> 0, total_amount |-> 0, status |-> "none",
     total_paid |-> 0, remaining |-> 0, expired |-> FALSE]

\* ------------------------------------------------------------------- Init
Init ==
    /\ schools = [s \in SchoolIds |-> [deleted |-> FALSE]]
    /\ students = [s \in 1..Len(StudentSchool) |->
                      [school_id |-> StudentSchool[s], deleted |-> FALSE]]
    /\ invoices = <<>>
    /\ items = <<>>
    /\ payments = <<>>
    /\ last = Result("none", 0)
    /\ procs = [p \in Procs |-> Idle]

\* --------------------------------------------------------- InvoiceService
\* InvoiceCreate.items_must_not_be_empty and the per-item validators
invoice_valid(its) == Len(its) > 0 /\ \A k \in 1..Len(its) : item_valid(its[k])

\* InvoiceService.create: total_amount summed from the request items
create_total(its) == Numeric2(SumSeq([k \in 1..Len(its) |-> item_total(its[k])]))

\* request item lists: empty, one item, or a valid item followed by any item
NewItemLists ==
    {<<>>} \cup {<<a>> : a \in ItemInputs}
           \cup {<<a, b>> : a \in {x \in ItemInputs : item_valid(x)}, b \in ItemInputs}

\* InvoiceBase.status: PENDING when the request supplies no status
status_or_default(status) == IF status = Unset THEN "pending" ELSE status

\* POST /invoices/
create_invoice(student_id, issue_date, status, its) ==
    IF ~invoice_valid(its)
    THEN /\ last' = Result("validation_error", 0)
         /\ UNCHANGED <<schools, students, invoices, items, payments>>
    ELSE LET inv == Len(invoices) + 1 IN
            /\ Len(invoices) < MaxInvoices
            /\ Len(items) + Len(its) <= MaxItems
            /\ invoices' = Append(invoices,
                   [student_id |-> student_id, issue_date |-> issue_date,
                    total_amount |-> create_total(its),
                    status |-> status_or_default(status), deleted |-> FALSE])
            /\ items' = items \o [k \in 1..Len(its) |-> NewItem(inv, its[k])]
            /\ last' = Result("ok", 0)
            /\ UNCHANGED <<schools, students, payments>>

\* mutant: an update that also takes a total_amount of 0 from the request
update_invoice_setting_total(inv, issue_date, status) ==
    IF ~get_by_id(invoices, inv)
    THEN /\ last' = Result("not_found", 0)
         /\ UNCHANGED <<schools, students, invoices, items, payments>>
    ELSE /\ invoices' = [invoices EXCEPT
               ![inv].issue_date = IF issue_date = UnsetDate THEN @ ELSE issue_date,
               ![inv].status = IF status = Unset THEN @ ELSE status,
               ![inv].total_amount = 0]
         /\ last' = Result("ok", 0)
         /\ UNCHANGED <<schools, students, items, payments>>

\* PUT /invoices/{invoice_id}: InvoiceService.update, unset fields untouched
update_invoice(inv, issue_date, status) ==
    IF ~get_by_id(invoices, inv)
    THEN /\ last' = Result("not_found", 0)
         /\ UNCHANGED <<schools, students, invoices, items, payments>>
    ELSE /\ invoices' = [invoices EXCEPT
               ![inv].issue_date = IF issue_date = UnsetDate THEN @ ELSE issue_date,
               ![inv].status = IF status = Unset THEN @ ELSE status]
         /\ last' = Result("ok", 0)
         /\ UNCHANGED <<schools, students, items, payments>>

\* mutant: a cancel that soft-deletes the payments of the invoice
cancel_invoice_voiding_payments(inv) ==
    IF ~get_by_id(invoices, inv)
    THEN /\ last' = Result("not_found", 0)
         /\ UNCHANGED <<schools, students, invoices, items, payments>>
    ELSE /\ invoices' = [invoices EXCEPT ![inv].status = "cancelled"]
         /\ payments' = [k \in 1..Len(payments) |->
               IF payments[k].invoice_id = inv
               THEN [payments[k] EXCEPT !.deleted = TRUE] ELSE payments[k]]
         /\ last' = Result("ok", 0)
         /\ UNCHANGED <<schools, students, items>>

\* mutant: a cancel that leaves a PAID invoice as it is
cancel_invoice_unless_paid(inv) ==
    IF ~get_by_id(invoices, inv)
    THEN /\ last' = Result("not_found", 0)
         /\ UNCHANGED <<schools, students, invoices, items, payments>>
    ELSE /\ invoices' = [invoices EXCEPT
               ![inv].status = IF @ = "paid" THEN @ ELSE "cancelled"]
         /\ last' = Result("ok", 0)
         /\ UNCHANGED <<schools, students, items, payments>>

\* POST /invoices/{invoice_id}/cancel: InvoiceService.cancel
cancel_invoice(inv) ==
    IF ~get_by_id(invoices, inv)
    THEN /\ last' = Result("not_found", 0)
         /\ UNCHANGED <<schools, students, invoices, items, payments>>
    ELSE /\ invoices' = [invoices EXCEPT ![inv].status = "cancelled"]
         /\ last' = Result("ok", 0)
         /\ UNCHANGED <<schools, students, items, payments>>

\* POST /invoices/{invoice_id}/items: InvoiceService.add_item
add_invoice_item(inv, x) ==
    IF ~item_valid(x)
    THEN /\ last' = Result("validation_error", 0)
         /\ UNCHANGED <<schools, students, invoices, items, payments>>
    ELSE IF ~get_by_id(invoices, inv)
    THEN /\ last' = Result("not_found", 0)
         /\ UNCHANGED <<schools, students, invoices, items, payments>>
    ELSE    /\ Len(items) < MaxItems
            /\ items' = Append(items, NewItem(inv, x))
            /\ invoices' = [invoices EXCEPT
                   ![inv].total_amount = recalculate_total(items', inv)]
            /\ last' = Result("ok", 0)
            /\ UNCHANGED <<schools, students, payments>>

\* PATCH /invoices/{invoice_id}/items/{item_id}: InvoiceService.update_item
update_invoice_item(inv, it, x) ==
    IF ~item_valid(x)
    THEN /\ last' = Result("validation_error", 0)
         /\ UNCHANGED <<schools, students, invoices, items, payments>>
    ELSE IF ~get_by_id(invoices, inv) \/ ~get_item(items, inv, it)
    THEN /\ last' = Result("not_found", 0)
         /\ UNCHANGED <<schools, students, invoices, items, payments>>
    ELSE /\ items' = [items EXCEPT ![it].quantity = x.quantity,
                                    ![it].unit_price = Numeric2(x.unit_price),
                                    ![it].total_amount = Numeric2(item_total(x))]
         /\ invoices' = [invoices EXCEPT
                ![inv].total_amount = recalculate_total(items', inv)]
         /\ last' = Result("ok", 0)
         /\ UNCHANGED <<schools, students, payments>>

\* mutant: the count does not exclude the item being deleted
remaining_items_with_self(its, it) ==
    Cardinality({k \in 1..Len(its) :
        /\ its[k].invoice_id = its[it].invoice_id
        /\ ~its[k].deleted})

\* InvoiceService.delete_item: other non-deleted items of the same invoice
remaining_items(its, it) ==
    Cardinality({k \in 1..Len(its) :
        /\ its[k].invoice_id = its[it].invoice_id
        /\ ~its[k].deleted
        /\ k # it})

\* DELETE /invoices/{invoice_id}/items/{item_id}: InvoiceService.delete_item
delete_invoice_item(inv, it) ==
    IF ~get_by_id(invoices, inv) \/ ~get_item(items, inv, it)
    THEN /\ last' = Result("not_found", 0)
         /\ UNCHANGED <<schools, students, invoices, items, payments>>
    ELSE IF remaining_items(items, it) = 0
    THEN /\ last' = Result("last_item", 0)
         /\ UNCHANGED <<schools, students, invoices, items, payments>>
    ELSE /\ items' = [items EXCEPT ![it].deleted = TRUE]
         /\ invoices' = [invoices EXCEPT
                ![inv].total_amount = recalculate_total(items', inv)]
         /\ last' = Result("ok", 0)
         /\ UNCHANGED <<schools, students, payments>>

\* --------------------------------------------------------- PaymentService
\* mutant: the check compares the new amount alone with the total
is_overpayment_amount_only(paid, amount, total) == amount > total * Scale

\* new_total_paid > invoice.total_amount
is_overpayment(paid, amount, total) == paid * Scale + amount > total * Scale

\* mutant: strict comparison, an exact completion is not recognised
is_fully_paid_strict(paid, amount, total) == paid * Scale + amount > total * Scale

\* new_total_paid >= invoice.total_amount
is_fully_paid(paid, amount, total) == paid * Scale + amount >= total * Scale

\* mutant: the remaining amount is reported as the whole total
remaining_amount_total(total, paid) == total

\* remaining = invoice.total_amount - total_paid
remaining_amount(total, paid) == total - paid

\* mutant: a full payment does not overwrite the status CANCELLED
create_payment_keeping_cancelled(inv, amount, payment_date) ==
    IF amount <= 0
    THEN /\ last' = Result("validation_error", 0)
         /\ UNCHANGED <<schools, students, invoices, items, payments>>
    ELSE IF ~get_by_id(invoices, inv)
    THEN /\ last' = Result("not_found", 0)
         /\ UNCHANGED <<schools, students, invoices, items, payments>>
    ELSE    LET paid == total_paid(payments, inv)
                total == invoices[inv].total_amount
            IN IF is_overpayment(paid, amount, total)
               THEN /\ last' = Result("overpayment", remaining_amount(total, paid))
                    /\ UNCHANGED <<schools, students, invoices, items, payments>>
               ELSE /\ Len(payments) < MaxPayments
                    /\ payments' = Append(payments,
                           [invoice_id |-> inv, amount |-> Numeric2(amount),
                            payment_date |-> payment_date, deleted |-> FALSE])
                    /\ invoices' = [invoices EXCEPT ![inv].status =
                           IF is_fully_paid(paid, amount, total) /\ @ # "cancelled"
                           THEN "paid" ELSE @]
                    /\ last' = Result("ok", 0)
                    /\ UNCHANGED <<schools, students, items>>

\* POST /invoices/{invoice_id}/payments: PaymentService.create
create_payment(inv, amount, payment_date) ==
    IF amount <= 0
    THEN /\ last' = Result("validation_error", 0)
         /\ UNCHANGED <<schools, students, invoices, items, payments>>
    ELSE IF ~get_by_id(invoices, inv)
    THEN /\ last' = Result("not_found", 0)
         /\ UNCHANGED <<schools, students, invoices, items, payments>>
    ELSE    LET paid == total_paid(payments, inv)
                total == invoices[inv].total_amount
            IN IF is_overpayment(paid, amount, total)
               THEN /\ last' = Result("overpayment", remaining_amount(total, paid))
                    /\ UNCHANGED <<schools, students, invoices, items, payments>>
               ELSE /\ Len(payments) < MaxPayments
                    /\ payments' = Append(payments,
                           [invoice_id |-> inv, amount |-> Numeric2(amount),
                            payment_date |-> payment_date, deleted |-> FALSE])
                    /\ invoices' = [invoices EXCEPT ![inv].status =
                           IF is_fully_paid(paid, amount, total) THEN "paid" ELSE @]
                    /\ last' = Result("ok", 0)
                    /\ UNCHANGED <<schools, students, items>>

\* ---------------------------------------------------- recalculate_total
\* InvoiceService.recalculate_total called on an invoice: writes the sum of
\* the non-deleted items' totals into total_amount and commits
recalculate(inv) ==
    /\ get_by_id(invoices, inv)
    /\ invoices' = [invoices EXCEPT ![inv].total_amount = recalculate_total(items, inv)]
    /\ last' = Result("recalculated", 0)
    /\ UNCHANGED <<schools, students, items, payments>>

\* ---------------------------------------------------------- list payments
\* the orders in which a query without ORDER BY can return the rows S
RowOrders(S) ==
    {f \in [1..Cardinality(S) -> S] :
        \A a \in 1..Cardinality(S), b \in 1..Cardinality(S) : a # b => f[a] # f[b]}

\* PaymentService.get_by_invoice: the ids of the non-deleted payments of the
\* invoice, as a list in any of the orders the query can return
get_by_invoice(pays, inv) ==
    RowOrders({k \in 1..Len(pays) : pays[k].invoice_id = inv /\ ~pays[k].deleted})

\* the response of a listing: the invoice asked for and the payment ids
ListResult(inv, body) ==
    [outcome |-> "payments", remaining |-> 0, invoice |-> inv, body |-> body]

\* GET /invoices/{invoice_id}/payments
list_payments(inv) ==
    IF ~get_by_id(invoices, inv)
    THEN /\ last' = Result("not_found", 0)
         /\ UNCHANGED <<schools, students, invoices, items, payments>>
    ELSE /\ \E body \in get_by_invoice(payments, inv) : last' = ListResult(inv, body)
         /\ UNCHANGED <<schools, students, invoices, items, payments>>

\* ------------------------------------------ StudentService / SchoolService
\* DELETE /students/{student_id}: soft delete
delete_student(s) ==
    IF students[s].deleted
    THEN /\ last' = Result("not_found", 0)
         /\ UNCHANGED <<schools, students, invoices, items, payments>>
    ELSE /\ students' = [students EXCEPT ![s].deleted = TRUE]
         /\ last' = Result("ok", 0)
         /\ UNCHANGED <<schools, invoices, items, payments>>

\* DELETE /schools/{school_id}: soft delete
delete_school(s) ==
    IF schools[s].deleted
    THEN /\ last' = Result("not_found", 0)
         /\ UNCHANGED <<schools, students, invoices, items, payments>>
    ELSE /\ schools' = [schools EXCEPT ![s].deleted = TRUE]
         /\ last' = Result("ok", 0)
         /\ UNCHANGED <<students, invoices, items, payments>>

\* ------------------------------------------------------------------- Next
InvoiceIds == 1..MaxInvoices
ItemIds == 1..MaxItems

\* Invoice lifecycle: every invoice belongs to student 1 and is issued on
\* date 1 (neither field is read by the item and payment handlers).
CreateInvoice ==
    /\ UNCHANGED procs
    /\ \E st \in {Unset, "pending", "paid"}, its \in NewItemLists :
           create_invoice(1, 1, st, its)
UpdateInvoice ==
    /\ UNCHANGED procs
    /\ \E i \in InvoiceIds, st \in InvoiceStatus \cup {Unset} :
           update_invoice(i, UnsetDate, st)
CancelInvoice ==
    /\ UNCHANGED procs
    /\ \E i \in InvoiceIds : cancel_invoice(i)
AddItem ==
    /\ UNCHANGED procs
    /\ \E i \in InvoiceIds, x \in ItemInputs : add_invoice_item(i, x)
UpdateItem ==
    /\ UNCHANGED procs
    /\ \E i \in InvoiceIds, it \in ItemIds, x \in ItemInputs : update_invoice_item(i, it, x)
DeleteItem ==
    /\ UNCHANGED procs
    /\ \E i \in InvoiceIds, it \in ItemIds : delete_invoice_item(i, it)
CreatePayment ==
    /\ UNCHANGED procs
    /\ \E i \in InvoiceIds, a \in Amounts : create_payment(i, a, 1)

Next ==
    \/ CreateInvoice
    \/ UpdateInvoice
    \/ CancelInvoice
    \/ AddItem
    \/ UpdateItem
    \/ DeleteItem
    \/ CreatePayment

Spec == Init /\ [][Next]_vars

\* ---------------------------------------------------- statement services
\* str.upper() of an InvoiceStatus value
Upper(st) ==
    CASE st = "pending" -> "PENDING"
      [] st = "paid" -> "PAID"
      [] st = "overdue" -> "OVERDUE"
      [] st = "cancelled" -> "CANCELLED"

NotFound == [found |-> FALSE]

\* mutant: the payment sum without the join on the selected invoices
payments_sum_any_invoice(pays, invs) ==
    SumOver({k \in 1..Len(pays) : ~pays[k].deleted}, pays, "amount")

\* func.coalesce(func.sum(Payment.amount), 0) over the non-deleted payments
\* whose invoice is in the set invs
payments_sum(pays, invs) ==
    SumOver({k \in 1..Len(pays) : pays[k].invoice_id \in invs /\ ~pays[k].deleted},
            pays, "amount")

\* mutant: the base filters without the status filter
student_invoice_base_filters_with_cancelled(sid, start_date, end_date) ==
    {i \in 1..Len(invoices) :
        /\ invoices[i].student_id = sid
        /\ ~invoices[i].deleted
        /\ invoices[i].issue_date >= start_date
        /\ invoices[i].issue_date <= end_date}

\* StudentStatementService._student_invoice_base_filters
student_invoice_base_filters(sid, start_date, end_date) ==
    {i \in 1..Len(invoices) :
        /\ invoices[i].student_id = sid
        /\ ~invoices[i].deleted
        /\ invoices[i].status # "cancelled"
        /\ invoices[i].issue_date >= start_date
        /\ invoices[i].issue_date <= end_date}

\* mutant: total_pending is computed against the payments of every invoice of
\* the student, without the base filters
student_calculate_totals_unfiltered(sid, start_date, end_date) ==
    LET eligible == student_invoice_base_filters(sid, start_date, end_date)
        every == {i \in 1..Len(invoices) : invoices[i].student_id = sid}
        total_invoiced == SumOver(eligible, invoices, "total_amount")
    IN [total_invoiced |-> total_invoiced,
        total_paid |-> payments_sum(payments, eligible),
        total_pending |-> total_invoiced - payments_sum(payments, every)]

\* StudentStatementService._calculate_totals
student_calculate_totals(sid, start_date, end_date) ==
    LET eligible == student_invoice_base_filters(sid, start_date, end_date)
        total_invoiced == SumOver(eligible, invoices, "total_amount")
        paid == payments_sum(payments, eligible)
    IN [total_invoiced |-> total_invoiced, total_paid |-> paid,
        total_pending |-> total_invoiced - paid]

\* one row of StudentStatementService._build_invoice_rows (paid amount from
\* the grouped query, 0 when the invoice has no payment row)
student_invoice_row(i) ==
    LET paid_amount == payments_sum(payments, {i}) IN
    [invoice_id |-> i,
     issue_date |-> invoices[i].issue_date, status |-> Upper(invoices[i].status),
     total_amount |-> invoices[i].total_amount, paid_amount |-> paid_amount,
     pending_amount |-> invoices[i].total_amount - paid_amount]

\* the grouped payment query of SchoolStatementService._build_invoice_rows as
\* a dictionary: one entry per invoice of invoice_ids that has a non-deleted
\* payment
payment_totals(invoice_ids) ==
    [j \in {i \in invoice_ids :
               \E k \in 1..Len(payments) :
                   payments[k].invoice_id = i /\ ~payments[k].deleted}
        |-> payments_sum(payments, {j})]

\* one row of SchoolStatementService._build_invoice_rows (it carries the
\* student_id): payment_totals.get(invoice.id, Decimal("0"))
invoice_row(i, totals) ==
    LET paid_amount == IF i \in DOMAIN totals THEN totals[i] ELSE 0 IN
    [invoice_id |-> i, student_id |-> invoices[i].student_id,
     issue_date |-> invoices[i].issue_date, status |-> Upper(invoices[i].status),
     total_amount |-> invoices[i].total_amount, paid_amount |-> paid_amount,
     pending_amount |-> invoices[i].total_amount - paid_amount]

\* mutant: rows only for the invoices that have a payment row in the grouped
\* query
student_build_invoice_rows_paid_only(sid, start_date, end_date) ==
    {student_invoice_row(i) :
        i \in {j \in student_invoice_base_filters(sid, start_date, end_date) :
                 \E k \in 1..Len(payments) :
                     payments[k].invoice_id = j /\ ~payments[k].deleted}}

\* StudentStatementService._build_invoice_rows (rows in no stated order)
student_build_invoice_rows(sid, start_date, end_date) ==
    {student_invoice_row(i) :
        i \in student_invoice_base_filters(sid, start_date, end_date)}

\* mutant: the existence check without the deleted_at filter
student_get_statement_with_deleted(sid, start_date, end_date, include_invoices) ==
    IF ~(sid \in DOMAIN students)
    THEN NotFound
    ELSE [found |-> TRUE, student_id |-> sid, school_id |-> students[sid].school_id,
          period |-> [start_date |-> start_date, end_date |-> end_date],
          summary |-> student_calculate_totals(sid, start_date, end_date),
          has_invoices |-> include_invoices,
          invoices |-> IF include_invoices
                       THEN student_build_invoice_rows(sid, start_date, end_date)
                       ELSE {}]

\* StudentStatementService.get_statement; invoices is None unless requested
student_get_statement(sid, start_date, end_date, include_invoices) ==
    IF ~(sid \in DOMAIN students /\ ~students[sid].deleted)
    THEN NotFound
    ELSE [found |-> TRUE, student_id |-> sid, school_id |-> students[sid].school_id,
          period |-> [start_date |-> start_date, end_date |-> end_date],
          summary |-> student_calculate_totals(sid, start_date, end_date),
          has_invoices |-> include_invoices,
          invoices |-> IF include_invoices
                       THEN student_build_invoice_rows(sid, start_date, end_date)
                       ELSE {}]

\* mutant: the school filter with an exclusive end date
school_invoice_filters_exclusive_end(school_id, start_date, end_date) ==
    {i \in 1..Len(invoices) :
        /\ students[invoices[i].student_id].school_id = school_id
        /\ ~students[invoices[i].student_id].deleted
        /\ ~invoices[i].deleted
        /\ invoices[i].status # "cancelled"
        /\ invoices[i].issue_date >= start_date
        /\ invoices[i].issue_date < end_date}

\* the school statements' invoice filter: join on non-deleted students of
\* the school, invoice not deleted, not cancelled, issued within the range
school_invoice_filters(school_id, start_date, end_date) ==
    {i \in 1..Len(invoices) :
        /\ students[invoices[i].student_id].school_id = school_id
        /\ ~students[invoices[i].student_id].deleted
        /\ ~invoices[i].deleted
        /\ invoices[i].status # "cancelled"
        /\ invoices[i].issue_date >= start_date
        /\ invoices[i].issue_date <= end_date}

\* mutant: the count without the deleted_at filter
student_count_with_deleted(school_id) ==
    Cardinality({s \in DOMAIN students : students[s].school_id = school_id})

\* count of the school's non-deleted students
student_count(school_id) ==
    Cardinality({s \in DOMAIN students :
        students[s].school_id = school_id /\ ~students[s].deleted})

\* SchoolStatementService._calculate_totals
school_calculate_totals(school_id, start_date, end_date) ==
    LET eligible == school_invoice_filters(school_id, start_date, end_date)
        total_invoiced == SumOver(eligible, invoices, "total_amount")
        paid == payments_sum(payments, eligible)
    IN [total_invoiced |-> total_invoiced, total_paid |-> paid,
        total_pending |-> total_invoiced - paid]

\* SchoolStatementService._build_invoice_rows
school_build_invoice_rows(school_id, start_date, end_date) ==
    LET invoice_ids == school_invoice_filters(school_id, start_date, end_date)
        totals == payment_totals(invoice_ids)
    IN {invoice_row(i, totals) : i \in invoice_ids}

\* SchoolStatementService.get_statement
school_get_statement(school_id, start_date, end_date, include_invoices) ==
    IF ~(school_id \in DOMAIN schools /\ ~schools[school_id].deleted)
    THEN NotFound
    ELSE [found |-> TRUE, school_id |-> school_id,
          period |-> [start_date |-> start_date, end_date |-> end_date],
          student_count |-> student_count(school_id),
          summary |-> school_calculate_totals(school_id, start_date, end_date),
          has_invoices |-> include_invoices,
          invoices |-> IF include_invoices
                       THEN school_build_invoice_rows(school_id, start_date, end_date)
                       ELSE {}]

\* mutant: the total_paid query without the status filter on the invoice
account_school_totals_paid_with_cancelled(school_id, start_date, end_date) ==
    LET eligible == school_invoice_filters(school_id, start_date, end_date)
        joined == {i \in 1..Len(invoices) :
                     /\ students[invoices[i].student_id].school_id = school_id
                     /\ ~students[invoices[i].student_id].deleted
                     /\ ~invoices[i].deleted
                     /\ invoices[i].issue_date >= start_date
                     /\ invoices[i].issue_date <= end_date}
        total_invoiced == SumOver(eligible, invoices, "total_amount")
        paid == payments_sum(payments, joined)
    IN [total_invoiced |-> total_invoiced, total_paid |-> paid,
        total_pending |-> total_invoiced - paid]

\* AccountStatementService.get_school_statement (called by the school route):
\* the same two aggregate queries, one payment sum query per invoice row
account_school_totals(school_id, start_date, end_date) ==
    LET eligible == school_invoice_filters(school_id, start_date, end_date)
        total_invoiced == SumOver(eligible, invoices, "total_amount")
        paid == payments_sum(payments, eligible)
    IN [total_invoiced |-> total_invoiced, total_paid |-> paid,
        total_pending |-> total_invoiced - paid]

\* mutant: the row's pending amount is the invoice total, the paid amount is
\* not subtracted
account_invoice_row_pending_total(i) ==
    LET paid_amount == payments_sum(payments, {i}) IN
    [invoice_id |-> i, student_id |-> invoices[i].student_id,
     issue_date |-> invoices[i].issue_date, status |-> Upper(invoices[i].status),
     total_amount |-> invoices[i].total_amount, paid_amount |-> paid_amount,
     pending_amount |-> invoices[i].total_amount]

\* one row of AccountStatementService.get_school_statement: a payment sum
\* query for the invoice
account_invoice_row(i) ==
    LET paid_amount == payments_sum(payments, {i}) IN
    [invoice_id |-> i, student_id |-> invoices[i].student_id,
     issue_date |-> invoices[i].issue_date, status |-> Upper(invoices[i].status),
     total_amount |-> invoices[i].total_amount, paid_amount |-> paid_amount,
     pending_amount |-> invoices[i].total_amount - paid_amount]

get_school_statement(school_id, start_date, end_date, include_invoices) ==
    IF ~(school_id \in DOMAIN schools /\ ~schools[school_id].deleted)
    THEN NotFound
    ELSE [found |-> TRUE, school_id |-> school_id,
          period |-> [start_date |-> start_date, end_date |-> end_date],
          student_count |-> student_count(school_id),
          summary |-> account_school_totals(school_id, start_date, end_date),
          has_invoices |-> include_invoices,
          invoices |-> IF include_invoices
                       THEN {account_invoice_row(i) :
                               i \in school_invoice_filters(school_id, start_date, end_date)}
                       ELSE {}]

\* ------------------------------------------------- statements: next state
\* The store as the statements read it: invoices of either student on any
\* date, re-dated and cancelled invoices, partial and full payments dated
\* MaxDate, soft-deleted students and schools.  Requests here are valid and
\* name existing rows; items cost 0.01 or 0.02 and payments are of 0.01.
StatementItemLists ==
    {<<[quantity |-> 1, unit_price |-> 2]>>, <<[quantity |-> 2, unit_price |-> 2]>>}

StCreateInvoice ==
    /\ UNCHANGED procs
    /\ \E s \in DOMAIN students, d \in Dates, its \in StatementItemLists :
           create_invoice(s, d, "pending", its)
StUpdateInvoice ==
    /\ UNCHANGED procs
    /\ \E i \in 1..Len(invoices), d \in Dates : update_invoice(i, d, Unset)
StCancelInvoice ==
    /\ UNCHANGED procs
    /\ \E i \in 1..Len(invoices) : cancel_invoice(i)
StCreatePayment ==
    /\ UNCHANGED procs
    /\ \E i \in 1..Len(invoices) : create_payment(i, Scale, MaxDate)
DeleteStudent ==
    /\ UNCHANGED procs
    /\ \E s \in DOMAIN students : delete_student(s)
DeleteSchool ==
    /\ UNCHANGED procs
    /\ \E s \in DOMAIN schools : delete_school(s)

NextStatements ==
    \/ StCreateInvoice
    \/ StUpdateInvoice
    \/ StCancelInvoice
    \/ StCreatePayment
    \/ DeleteStudent
    \/ DeleteSchool

SpecStatements == Init /\ [][NextStatements]_vars

\* ------------------------------------------------- recalculations
\* the invoice operations, and recalculate_total called on any invoice
RecalculateTotal ==
    /\ UNCHANGED procs
    /\ \E i \in InvoiceIds : recalculate(i)

NextRecalculate ==
    \/ Next
    \/ RecalculateTotal

SpecRecalculate == Init /\ [][NextRecalculate]_vars

\* ------------------------------------------------- payment listings
\* invoices of one 0.02 item, payments of 0.01 on any date, and listings
LsCreateInvoice ==
    /\ UNCHANGED procs
    /\ create_invoice(1, 1, Unset, <<[quantity |-> 1, unit_price |-> 2 * Scale]>>)
LsCreatePayment ==
    /\ UNCHANGED procs
    /\ \E i \in InvoiceIds, d \in Dates : create_payment(i, Scale, d)
ListPayments ==
    /\ UNCHANGED procs
    /\ \E i \in InvoiceIds : list_payments(i)

NextListPayments ==
    \/ LsCreateInvoice
    \/ LsCreatePayment
    \/ ListPayments

SpecListPayments == Init /\ [][NextListPayments]_vars

\* ------------------------------------------------- statement responses
\* the fields of a service result that the response schema serialises
StatementFields(statement) == DOMAIN statement \ {"found", "has_invoices"}

\* mutant: the response serialised with its None fields
keep_none(statement) ==
    [f \in StatementFields(statement) |-> statement[f]]

\* response_model_exclude_none=True: a field whose value is None (invoices
\* when include_invoices is false) is left out of the response body
exclude_none(statement) ==
    [f \in IF statement.has_invoices
           THEN StatementFields(statement)
           ELSE StatementFields(statement) \ {"invoices"} |-> statement[f]]

\* the response of GET /students/{student_id}/account-statement
student_statement_response(student_id, start_date, end_date, include_invoices) ==
    LET statement == student_get_statement(student_id, start_date, end_date,
                                           include_invoices)
    IN IF ~statement.found
       THEN [status_code |-> 404]
       ELSE [status_code |-> 200, body |-> exclude_none(statement)]

\* the response of GET /schools/{school_id}/account-statement
school_statement_response(school_id, start_date, end_date, include_invoices) ==
    LET statement == get_school_statement(school_id, start_date, end_date,
                                          include_invoices)
    IN IF ~statement.found
       THEN [status_code |-> 404]
       ELSE [status_code |-> 200, body |-> exclude_none(statement)]

\* ------------------------------------------------- statement requests
\* GET /students/{student_id}/account-statement: 404 when the service
\* returns None; the request writes nothing
get_student_account_statement(student_id, start_date, end_date, include_invoices) ==
    LET statement == student_get_statement(student_id, start_date, end_date,
                                           include_invoices)
    IN /\ last' = Result(IF statement.found THEN "statement"
                                            ELSE "statement_not_found", 0)
       /\ UNCHANGED <<schools, students, invoices, items, payments>>

\* GET /schools/{school_id}/account-statement
get_school_account_statement(school_id, start_date, end_date, include_invoices) ==
    LET statement == get_school_statement(school_id, start_date, end_date,
                                          include_invoices)
    IN /\ last' = Result(IF statement.found THEN "statement"
                                            ELSE "statement_not_found", 0)
       /\ UNCHANGED <<schools, students, invoices, items, payments>>

\* path parameters: the ids of the roster and one id that names no row
StudentPathIds == 1..(Len(StudentSchool) + 1)
SchoolPathIds == SchoolIds \cup {Cardinality(SchoolIds) + 1}

\* the requests ask for the whole period (the outcome of a request and what
\* it writes do not depend on the dates)
GetStudentStatement ==
    /\ UNCHANGED procs
    /\ \E sid \in StudentPathIds, inc \in BOOLEAN :
           get_student_account_statement(sid, 1, MaxDate, inc)
GetSchoolStatement ==
    /\ UNCHANGED procs
    /\ \E sc \in SchoolPathIds, inc \in BOOLEAN :
           get_school_account_statement(sc, 1, MaxDate, inc)

\* statement requests over stores of invoices, payments and soft-deleted
\* students and schools
NextStatementRequests ==
    \/ StCreateInvoice
    \/ StCreatePayment
    \/ DeleteStudent
    \/ DeleteSchool
    \/ GetStudentStatement
    \/ GetSchoolStatement

SpecStatementRequests == Init /\ [][NextStatementRequests]_vars

\* ------------------------------------------------- concurrent requests
\* Each request handler runs in its own session; a query reads the rows
\* committed so far and db.commit() publishes the session's writes.  No
\* handler takes a row lock, so steps of different handlers interleave at
\* every query and every commit.
StoreUnchanged == UNCHANGED <<schools, students, invoices, items, payments, last>>

Finish(p, outcome, remaining) ==
    procs' = [procs EXCEPT ![p].pc = "done", ![p].outcome = outcome,
                           ![p].remaining = remaining]

\* the store after one create_invoice request with the item list its
InitStore(its) ==
    /\ schools = [s \in SchoolIds |-> [deleted |-> FALSE]]
    /\ students = [s \in 1..Len(StudentSchool) |->
                      [school_id |-> StudentSchool[s], deleted |-> FALSE]]
    /\ invoices = <<[student_id |-> 1, issue_date |-> 1,
                     total_amount |-> create_total(its), status |-> "pending",
                     deleted |-> FALSE]>>
    /\ items = [k \in 1..Len(its) |-> NewItem(1, its[k])]
    /\ payments = <<>>
    /\ last = Result("ok", 0)
    /\ procs = [p \in Procs |-> Idle]

\* create_payment route: InvoiceService.get_by_id loads the invoice
pay_get_invoice(p, inv, amount) ==
    /\ procs[p].pc = "idle"
    /\ amount > 0
    /\ IF ~get_by_id(invoices, inv)
       THEN Finish(p, "not_found", 0)
       ELSE procs' = [procs EXCEPT ![p].pc = "pay_loaded", ![p].invoice = inv,
                         ![p].amount = amount,
                         ![p].total_amount = invoices[inv].total_amount,
                         ![p].status = invoices[inv].status]
    /\ StoreUnchanged

\* PaymentService.create: query of the existing payments and overpayment check
pay_query_payments(p) ==
    /\ procs[p].pc = "pay_loaded"
    /\ LET paid == total_paid(payments, procs[p].invoice) IN
       IF is_overpayment(paid, procs[p].amount, procs[p].total_amount)
       THEN Finish(p, "overpayment", remaining_amount(procs[p].total_amount, paid))
       ELSE procs' = [procs EXCEPT ![p].pc = "pay_pending", ![p].total_paid = paid]
    /\ StoreUnchanged

\* PaymentService.create: db.commit() inserts the payment and, when the
\* handler set invoice.status, updates the invoice in the same transaction
pay_commit(p) ==
    /\ procs[p].pc = "pay_pending"
    /\ payments' = Append(payments,
           [invoice_id |-> procs[p].invoice, amount |-> Numeric2(procs[p].amount),
            payment_date |-> 1, deleted |-> FALSE])
    /\ invoices' = [invoices EXCEPT ![procs[p].invoice].status =
           IF /\ is_fully_paid(procs[p].total_paid, procs[p].amount, procs[p].total_amount)
              /\ procs[p].status # "paid"
           THEN "paid" ELSE @]
    /\ Finish(p, "ok", 0)
    /\ UNCHANGED <<schools, students, items, last>>

\* payment requests of 0.01 and 0.02
ConcurrentAmounts == {Scale, 2 * Scale}

PayGetInvoice ==
    \E p \in Procs, i \in InvoiceIds, a \in ConcurrentAmounts : pay_get_invoice(p, i, a)
PayQueryPayments == \E p \in Procs : pay_query_payments(p)
PayCommit == \E p \in Procs : pay_commit(p)

NextPayments ==
    \/ PayGetInvoice
    \/ PayQueryPayments
    \/ PayCommit

\* one pending invoice of 0.01 or 0.02, then concurrent payment requests
InitPayments ==
    \E its \in {<<[quantity |-> 1, unit_price |-> 2]>>,
                <<[quantity |-> 2, unit_price |-> 2]>>} : InitStore(its)

SpecPayments == InitPayments /\ [][NextPayments]_vars

\* add_invoice_item route: InvoiceService.get_by_id
add_get_invoice(p, inv, x) ==
    /\ procs[p].pc = "idle"
    /\ item_valid(x)
    /\ IF ~get_by_id(invoices, inv)
       THEN Finish(p, "not_found", 0)
       ELSE procs' = [procs EXCEPT ![p].pc = "add_loaded", ![p].invoice = inv,
                         ![p].quantity = x.quantity, ![p].unit_price = x.unit_price]
    /\ StoreUnchanged

\* InvoiceService.add_item: db.add(invoice_item); db.commit()
add_commit_item(p) ==
    /\ procs[p].pc = "add_loaded"
    /\ Len(items) < MaxItems
    /\ items' = Append(items, NewItem(procs[p].invoice,
           [quantity |-> procs[p].quantity, unit_price |-> procs[p].unit_price]))
    /\ procs' = [procs EXCEPT ![p].pc = "recalc", ![p].item = Len(items) + 1,
                              ![p].expired = TRUE]
    /\ UNCHANGED <<schools, students, invoices, payments, last>>

\* update_invoice_item / delete_invoice_item routes: get_by_id and get_item
item_get(p, op, inv, it, x) ==
    /\ procs[p].pc = "idle"
    /\ item_valid(x)
    /\ IF ~get_by_id(invoices, inv) \/ ~get_item(items, inv, it)
       THEN Finish(p, "not_found", 0)
       ELSE procs' = [procs EXCEPT ![p].pc = op, ![p].invoice = inv, ![p].item = it,
                         ![p].quantity = x.quantity, ![p].unit_price = x.unit_price]
    /\ StoreUnchanged

\* InvoiceService.update_item: the item's fields are written and committed
upd_commit_item(p) ==
    /\ procs[p].pc = "upd_loaded"
    /\ LET x == [quantity |-> procs[p].quantity, unit_price |-> procs[p].unit_price] IN
       items' = [items EXCEPT ![procs[p].item].quantity = x.quantity,
                              ![procs[p].item].unit_price = Numeric2(x.unit_price),
                              ![procs[p].item].total_amount = Numeric2(item_total(x))]
    /\ procs' = [procs EXCEPT ![p].pc = "recalc"]
    /\ UNCHANGED <<schools, students, invoices, payments, last>>

\* InvoiceService.delete_item: count of the other non-deleted items
del_count(p) ==
    /\ procs[p].pc = "del_loaded"
    /\ IF remaining_items(items, procs[p].item) = 0
       THEN Finish(p, "last_item", 0)
       ELSE procs' = [procs EXCEPT ![p].pc = "del_pending"]
    /\ StoreUnchanged

\* InvoiceService.delete_item: item.deleted_at is set and committed
del_commit(p) ==
    /\ procs[p].pc = "del_pending"
    /\ items' = [items EXCEPT ![procs[p].item].deleted = TRUE]
    /\ procs' = [procs EXCEPT ![p].pc = "recalc"]
    /\ UNCHANGED <<schools, students, invoices, payments, last>>

\* InvoiceService.recalculate_total: the invoice row as the session holds it
\* and the query of the non-deleted items
recalc_query(p) ==
    /\ procs[p].pc = "recalc"
    /\ procs' = [procs EXCEPT ![p].pc = "recalc_pending",
                    ![p].status = "none",
                    ![p].total_paid = invoices[procs[p].invoice].total_amount,
                    ![p].total_amount = recalculate_total(items, procs[p].invoice)]
    /\ StoreUnchanged

\* InvoiceService.recalculate_total: invoice.total_amount = total; db.commit().
\* The UPDATE is emitted when the attribute was expired (add_item) or the
\* value differs from the one the session loaded.
recalc_commit(p) ==
    /\ procs[p].pc = "recalc_pending"
    /\ invoices' = [invoices EXCEPT ![procs[p].invoice].total_amount =
           IF procs[p].expired \/ procs[p].total_amount # procs[p].total_paid
           THEN procs[p].total_amount ELSE @]
    /\ Finish(p, "ok", 0)
    /\ UNCHANGED <<schools, students, items, payments, last>>

ConcurrentItemInputs ==
    {[quantity |-> 1, unit_price |-> 2], [quantity |-> 2, unit_price |-> 2]}

AddGetInvoice ==
    \E p \in Procs, i \in InvoiceIds, x \in ConcurrentItemInputs : add_get_invoice(p, i, x)
AddCommitItem == \E p \in Procs : add_commit_item(p)
UpdGetItem ==
    \E p \in Procs, i \in InvoiceIds, it \in ItemIds, x \in ConcurrentItemInputs :
        item_get(p, "upd_loaded", i, it, x)
UpdCommitItem == \E p \in Procs : upd_commit_item(p)
DelGetItem ==
    \E p \in Procs, i \in InvoiceIds, it \in ItemIds :
        item_get(p, "del_loaded", i, it, [quantity |-> 1, unit_price |-> 0])
DelCount == \E p \in Procs : del_count(p)
DelCommit == \E p \in Procs : del_commit(p)
RecalcQuery == \E p \in Procs : recalc_query(p)
RecalcCommit == \E p \in Procs : recalc_commit(p)

NextItems ==
    \/ AddGetInvoice
    \/ AddCommitItem
    \/ UpdGetItem
    \/ UpdCommitItem
    \/ DelGetItem
    \/ DelCount
    \/ DelCommit
    \/ RecalcQuery
    \/ RecalcCommit

\* one pending invoice with one or two items of 0.01, then concurrent item
\* requests
InitItems ==
    \E its \in {<<[quantity |-> 1, unit_price |-> 2]>>,
                <<[quantity |-> 1, unit_price |-> 2], [quantity |-> 1, unit_price |-> 2]>>} :
        InitStore(its)

SpecItems == InitItems /\ [][NextItems]_vars

\* ======================================================================
\* Properties of the invoice lifecycle (specification Spec)
\* ======================================================================
Invoices == 1..Len(invoices)

\* sum of the amounts of the non-deleted payments of an invoice
PaidSum(pays, inv) ==
    SumOver({k \in 1..Len(pays) : pays[k].invoice_id = inv /\ ~pays[k].deleted},
            pays, "amount")

\* sum of total_amount over the non-deleted items of an invoice
LiveItemSum(its, inv) ==
    SumOver({k \in 1..Len(its) : its[k].invoice_id = inv /\ ~its[k].deleted},
            its, "total_amount")

\* C1: for every invoice, the sum of the amounts of its non-deleted payments
\* is at most the invoice's total_amount, in every reachable state.
C1_PaidNeverExceedsTotal ==
    \A i \in Invoices : PaidSum(payments, i) <= invoices[i].total_amount

\* C2: every invoice's total_amount equals the sum of total_amount over its
\* non-deleted items, after every createInvoice / addItem / updateItem /
\* deleteItem run to completion.
C2_TotalEqualsItemSum ==
    \A i \in Invoices : invoices[i].total_amount = LiveItemSum(items, i)

\* C3: every invoice has at least one non-deleted item in every reachable state.
C3_AtLeastOneLiveItem ==
    \A i \in Invoices :
        \E k \in 1..Len(items) : items[k].invoice_id = i /\ ~items[k].deleted

\* an item was soft-deleted and its invoice still has a live item
C3_Witness ==
    \E k \in 1..Len(items), m \in 1..Len(items) :
        /\ items[k].deleted
        /\ items[m].invoice_id = items[k].invoice_id
        /\ ~items[m].deleted

\* C4: deleteItem on the only non-deleted item of its invoice is rejected with
\* the cannot-delete-last-item outcome and changes neither the items nor the
\* invoices; with another non-deleted item present the item is soft-deleted,
\* no other item changes, and the invoice total becomes the sum of the
\* remaining non-deleted items, its status unchanged.
C4_DeleteItem ==
    [][\A i \in InvoiceIds, it \in ItemIds :
        (delete_invoice_item(i, it) /\ get_by_id(invoices, i) /\ get_item(items, i, it))
        => IF \A k \in 1..Len(items) :
                 (items[k].invoice_id = i /\ ~items[k].deleted) => k = it
           THEN /\ last'.outcome = "last_item"
                /\ items' = items
                /\ invoices' = invoices
           ELSE /\ last'.outcome = "ok"
                /\ items' = [items EXCEPT ![it].deleted = TRUE]
                /\ invoices'[i].total_amount = LiveItemSum(items', i)
                /\ invoices'[i].status = invoices[i].status
                /\ \A j \in Invoices : j # i => invoices'[j] = invoices[j]
      ]_vars

\* a deletion of a last item was rejected
C4_Witness ==
    /\ last.outcome = "last_item"
    /\ \E k \in 1..Len(items) : items[k].deleted

\* C5: createPayment with paidSoFar + amount > total_amount fails with the
\* overpayment error reporting remaining = total_amount - paidSoFar, and
\* leaves payments and invoices unchanged.
C5_OverpaymentRejected ==
    [][\A i \in InvoiceIds, a \in Amounts, d \in Dates :
        (/\ create_payment(i, a, d)
         /\ a > 0
         /\ get_by_id(invoices, i)
         /\ PaidSum(payments, i) * Scale + a > invoices[i].total_amount * Scale)
        => /\ last'.outcome = "overpayment"
           /\ last'.remaining = invoices[i].total_amount - PaidSum(payments, i)
           /\ payments' = payments
           /\ invoices' = invoices
           /\ items' = items
      ]_vars

\* an overpayment was rejected on a partly paid invoice
C5_Witness ==
    /\ last.outcome = "overpayment"
    /\ last.remaining > 0
    /\ Len(payments) > 0

\* C6: an accepted createPayment appends the payment and, in the same step,
\* sets the status to PAID exactly when paidSoFar + amount >= total_amount,
\* and otherwise leaves the status as it was.
C6_StatusOnPayment ==
    [][\A i \in InvoiceIds, a \in Amounts, d \in Dates :
        (create_payment(i, a, d) /\ Len(payments') = Len(payments) + 1)
        => /\ payments'[Len(payments')].invoice_id = i
           /\ invoices'[i].status =
                 IF PaidSum(payments, i) * Scale + a >= invoices[i].total_amount * Scale
                 THEN "paid" ELSE invoices[i].status
           /\ invoices'[i].total_amount = invoices[i].total_amount
      ]_vars

\* a partial payment left a PENDING invoice PENDING, and a later payment
\* completed another or the same invoice
C6_Witness ==
    \E i \in Invoices :
        /\ invoices[i].status = "pending"
        /\ PaidSum(payments, i) > 0
        /\ PaidSum(payments, i) < invoices[i].total_amount

\* C7: on an invoice paid in full (non-deleted payments sum to total_amount,
\* status PAID) every createPayment of a positive amount is rejected with
\* remaining amount 0, and no createPayment step moves any invoice's status
\* away from PAID.
C7_PaidInFullIsFinal ==
    [][\A i \in InvoiceIds, a \in Amounts, d \in Dates :
        (create_payment(i, a, d) /\ a > 0 /\ get_by_id(invoices, i))
        => /\ (/\ invoices[i].status = "paid"
               /\ PaidSum(payments, i) = invoices[i].total_amount)
              => /\ last'.outcome = "overpayment"
                 /\ last'.remaining = 0
                 /\ payments' = payments
           /\ \A j \in Invoices :
                 invoices[j].status = "paid" => invoices'[j].status = "paid"
      ]_vars

\* a payment on a fully paid invoice was rejected with remaining 0
C7_Witness ==
    /\ last.outcome = "overpayment"
    /\ last.remaining = 0
    /\ \E i \in Invoices :
          /\ invoices[i].status = "paid"
          /\ PaidSum(payments, i) = invoices[i].total_amount
          /\ PaidSum(payments, i) > 0

\* ======================================================================
\* Properties of the statements (specification SpecStatements)
\* ======================================================================
\* C10: every student statement and every school statement (both school
\* implementations), for every date range, has
\* summary.total_pending = summary.total_invoiced - summary.total_paid.
C10_PendingIsInvoicedMinusPaid ==
    \A start_date \in Dates, end_date \in Dates, inc \in BOOLEAN :
        /\ \A sid \in DOMAIN students :
              LET st == student_get_statement(sid, start_date, end_date, inc) IN
              st.found => st.summary.total_pending =
                              st.summary.total_invoiced - st.summary.total_paid
        /\ \A sc \in DOMAIN schools :
              LET st == school_get_statement(sc, start_date, end_date, inc)
                  ac == get_school_statement(sc, start_date, end_date, inc)
              IN /\ st.found => st.summary.total_pending =
                                   st.summary.total_invoiced - st.summary.total_paid
                 /\ ac.found => ac.summary.total_pending =
                                   ac.summary.total_invoiced - ac.summary.total_paid

\* a student statement and a school statement with a partly paid total
C10_Witness ==
    \E start_date \in Dates, end_date \in Dates :
        /\ \E sid \in DOMAIN students :
              LET st == student_get_statement(sid, start_date, end_date, FALSE) IN
              st.found /\ st.summary.total_paid > 0 /\ st.summary.total_pending > 0
        /\ \E sc \in DOMAIN schools :
              LET st == school_get_statement(sc, start_date, end_date, FALSE) IN
              st.found /\ st.summary.total_paid > 0 /\ st.summary.total_pending > 0

\* ======================================================================
\* Properties of concurrent requests (SpecPayments, SpecItems)
\* ======================================================================
\* C8: two concurrent createPayment requests on the same invoice are never
\* both accepted when their amounts together with the already-paid sum
\* exceed total_amount: whenever two handlers have both committed a payment
\* on an invoice, its paid sum is at most its total.
C8_ConcurrentPaymentsSerialized ==
    \A p \in Procs, q \in Procs :
        (/\ p # q
         /\ procs[p].pc = "done" /\ procs[p].outcome = "ok"
         /\ procs[q].pc = "done" /\ procs[q].outcome = "ok"
         /\ procs[p].invoice = procs[q].invoice)
        => PaidSum(payments, procs[p].invoice) <= invoices[procs[p].invoice].total_amount

\* C9: addItem, updateItem and deleteItem take effect atomically: no committed
\* state, as a concurrent reader sees it, has an invoice whose total_amount
\* differs from the sum of its non-deleted items' total_amount.
C9_ReaderSeesConsistentTotal ==
    \A i \in Invoices :
        LET live == {k \in 1..Len(items) : items[k].invoice_id = i /\ ~items[k].deleted}
        IN invoices[i].total_amount = SumOver(live, items, "total_amount")

\* ======================================================================
\* Properties of the statements, continued (SpecStatements)
\* ======================================================================
StudentIds == DOMAIN students

InRange(i, start_date, end_date) ==
    start_date <= invoices[i].issue_date /\ invoices[i].issue_date <= end_date

\* what invoice i adds to the statement of student sid, and to the statement
\* of school sc, while it is not cancelled
CountsForStudent(i, sid, start_date, end_date) ==
    /\ invoices[i].student_id = sid
    /\ ~invoices[i].deleted
    /\ InRange(i, start_date, end_date)

CountsForSchool(i, sc, start_date, end_date) ==
    /\ students[invoices[i].student_id].school_id = sc
    /\ ~students[invoices[i].student_id].deleted
    /\ ~invoices[i].deleted
    /\ InRange(i, start_date, end_date)

\* a step that changes nothing but invoice i and the payments of invoice i
OnlyTouches(i) ==
    /\ students' = students
    /\ schools' = schools
    /\ Len(invoices') = Len(invoices)
    /\ \A j \in Invoices : j # i => invoices'[j] = invoices[j]
    /\ Len(payments') >= Len(payments)
    /\ \A k \in 1..Len(payments') :
          \/ k <= Len(payments) /\ payments'[k] = payments[k]
          \/ k > Len(payments) /\ payments'[k].invoice_id = i

Lowered(before, invoiced, paid) ==
    [total_invoiced |-> before.total_invoiced - invoiced,
     total_paid |-> before.total_paid - paid,
     total_pending |-> before.total_pending - (invoiced - paid)]

\* C11: a CANCELLED invoice is never a row of a breakdown; a step that only
\* changes a CANCELLED invoice that stays CANCELLED, or adds payments to it,
\* changes no statement's totals; and a step of cancelInvoice on an invoice
\* that was not CANCELLED lowers every statement's totals by exactly what the
\* invoice contributed to it: its total_amount and its paid sum where it was
\* counted, nothing elsewhere.
C11_CancelledExcluded ==
    /\ [](\A i \in Invoices, start_date \in Dates, end_date \in Dates :
             invoices[i].status = "cancelled" =>
                 /\ \A sid \in StudentIds :
                        \A r \in student_build_invoice_rows(sid, start_date, end_date) :
                            r.invoice_id # i
                 /\ \A sc \in SchoolIds :
                        /\ \A r \in school_build_invoice_rows(sc, start_date, end_date) :
                              r.invoice_id # i
                        /\ LET ac == get_school_statement(
                                          sc, start_date, end_date, TRUE)
                           IN ac.found => \A r \in ac.invoices : r.invoice_id # i)
    /\ [][\A i \in Invoices :
            /\ (/\ invoices[i].status = "cancelled"
                /\ invoices'[i].status = "cancelled"
                /\ <<invoices, payments>>' # <<invoices, payments>>
                /\ OnlyTouches(i))
               => \A start_date \in Dates, end_date \in Dates :
                  /\ \A sid \in StudentIds :
                        student_calculate_totals(sid, start_date, end_date)'
                            = student_calculate_totals(sid, start_date, end_date)
                  /\ \A sc \in SchoolIds :
                        /\ school_calculate_totals(sc, start_date, end_date)'
                              = school_calculate_totals(sc, start_date, end_date)
                        /\ account_school_totals(sc, start_date, end_date)'
                              = account_school_totals(sc, start_date, end_date)
            /\ (invoices[i].status # "cancelled" /\ cancel_invoice(i))
               => \A start_date \in Dates, end_date \in Dates :
                  LET total == invoices[i].total_amount
                      paid == PaidSum(payments, i)
                  IN /\ \A sid \in StudentIds :
                           student_calculate_totals(sid, start_date, end_date)'
                             = IF CountsForStudent(i, sid, start_date, end_date)
                               THEN Lowered(student_calculate_totals(
                                                sid, start_date, end_date), total, paid)
                               ELSE student_calculate_totals(sid, start_date, end_date)
                     /\ \A sc \in SchoolIds :
                           LET counted == CountsForSchool(i, sc, start_date, end_date)
                               sch == school_calculate_totals(sc, start_date, end_date)
                               acc == account_school_totals(sc, start_date, end_date)
                           IN /\ school_calculate_totals(sc, start_date, end_date)'
                                 = IF counted THEN Lowered(sch, total, paid) ELSE sch
                              /\ account_school_totals(sc, start_date, end_date)'
                                 = IF counted THEN Lowered(acc, total, paid) ELSE acc
         ]_vars

\* a partly paid invoice of a live student of a live school was cancelled,
\* and it has payments
C11_Witness ==
    \E i \in Invoices :
        /\ invoices[i].status = "cancelled"
        /\ PaidSum(payments, i) > 0
        /\ PaidSum(payments, i) < invoices[i].total_amount
        /\ ~students[invoices[i].student_id].deleted
        /\ ~schools[students[invoices[i].student_id].school_id].deleted
        /\ last.outcome = "ok"

\* the eligible invoices of a student statement and of a school statement
EligibleForStudent(sid, start_date, end_date) ==
    {i \in Invoices : /\ invoices[i].status # "cancelled"
                      /\ CountsForStudent(i, sid, start_date, end_date)}

EligibleForSchool(sc, start_date, end_date) ==
    {i \in Invoices : /\ invoices[i].status # "cancelled"
                      /\ CountsForSchool(i, sc, start_date, end_date)}

\* C12: in every store state and for every date range, total_invoiced of a
\* statement is the sum of total_amount over exactly the eligible invoices
\* (not soft-deleted, not CANCELLED, start_date <= issue_date <= end_date,
\* of the student, or of a non-soft-deleted student of the school), and 0
\* when there is none.
C12_TotalInvoicedOverEligible ==
    \A start_date \in Dates, end_date \in Dates, inc \in BOOLEAN :
        /\ \A sid \in StudentIds :
              LET st == student_get_statement(sid, start_date, end_date, inc)
                  eligible == EligibleForStudent(sid, start_date, end_date)
              IN st.found =>
                    /\ st.summary.total_invoiced
                          = SumOver(eligible, invoices, "total_amount")
                    /\ eligible = {} => st.summary.total_invoiced = 0
        /\ \A sc \in SchoolIds :
              LET st == school_get_statement(sc, start_date, end_date, inc)
                  ac == get_school_statement(sc, start_date, end_date, inc)
                  eligible == EligibleForSchool(sc, start_date, end_date)
              IN /\ st.found =>
                      /\ st.summary.total_invoiced
                            = SumOver(eligible, invoices, "total_amount")
                      /\ eligible = {} => st.summary.total_invoiced = 0
                 /\ ac.found =>
                      /\ ac.summary.total_invoiced
                            = SumOver(eligible, invoices, "total_amount")
                      /\ eligible = {} => ac.summary.total_invoiced = 0

\* a one-day range ending on an invoice's issue_date counts it and leaves out
\* an invoice issued on another day, and another range has nothing eligible
C12_Witness ==
    /\ \E i \in Invoices, j \in Invoices :
          /\ invoices[i].student_id = invoices[j].student_id
          /\ invoices[i].issue_date # invoices[j].issue_date
          /\ invoices[j].status # "cancelled"
          /\ LET d == invoices[i].issue_date
                 sc == students[invoices[i].student_id].school_id
                 st == school_get_statement(sc, d, d, FALSE)
             IN st.found /\ st.summary.total_invoiced = invoices[i].total_amount
                         /\ invoices[i].total_amount > 0
    /\ \E sc \in SchoolIds :
          LET st == school_get_statement(sc, 1, MaxDate, FALSE)
          IN st.found /\ st.summary.total_invoiced = 0

\* the non-deleted payments of the invoices in invs
PaymentsOf(invs) ==
    {k \in 1..Len(payments) : ~payments[k].deleted /\ payments[k].invoice_id \in invs}

\* C13: in every store state and for every date range, total_paid of a
\* statement is the sum of amount over the non-deleted payments whose invoice
\* is eligible: the invoice's issue_date selects the payment, the payment's
\* own payment_date does not, and payments of ineligible invoices are left
\* out.
C13_TotalPaidOverEligible ==
    \A start_date \in Dates, end_date \in Dates, inc \in BOOLEAN :
        /\ \A sid \in StudentIds :
              LET st == student_get_statement(sid, start_date, end_date, inc)
                  paid == PaymentsOf(EligibleForStudent(sid, start_date, end_date))
              IN st.found => st.summary.total_paid = SumOver(paid, payments, "amount")
        /\ \A sc \in SchoolIds :
              LET st == school_get_statement(sc, start_date, end_date, inc)
                  ac == get_school_statement(sc, start_date, end_date, inc)
                  paid == PaymentsOf(EligibleForSchool(sc, start_date, end_date))
              IN /\ st.found => st.summary.total_paid = SumOver(paid, payments, "amount")
                 /\ ac.found => ac.summary.total_paid = SumOver(paid, payments, "amount")

\* a payment dated outside the range is counted because its invoice was
\* issued inside it, while a payment of an invoice issued outside is not
C13_Witness ==
    \E k \in 1..Len(payments), n \in 1..Len(payments) :
        LET i == payments[k].invoice_id
            j == payments[n].invoice_id
            d == invoices[i].issue_date
            st == student_get_statement(invoices[i].student_id, d, d, FALSE)
        IN /\ payments[k].payment_date > d
           /\ invoices[j].student_id = invoices[i].student_id
           /\ invoices[j].issue_date # d
           /\ invoices[i].status # "cancelled"
           /\ st.found
           /\ st.summary.total_paid = PaidSum(payments, i)

\* rows is a breakdown with exactly one row for each invoice of eligible, each
\* row carrying the invoice's total, its paid sum and the difference
BreakdownOf(rows, eligible) ==
    /\ {r.invoice_id : r \in rows} = eligible
    /\ Cardinality(rows) = Cardinality(eligible)
    /\ \A r \in rows :
          /\ r.total_amount = invoices[r.invoice_id].total_amount
          /\ r.paid_amount = PaidSum(payments, r.invoice_id)
          /\ (PaymentsOf({r.invoice_id}) = {}) => r.paid_amount = 0
          /\ r.pending_amount = r.total_amount - r.paid_amount

\* C14: with include_invoices = true the breakdown of a statement has exactly
\* one row per eligible invoice, invoices without payments included; a row's
\* paid_amount is the sum of the invoice's non-deleted payments (0 when it has
\* none) and its pending_amount is the invoice's total_amount minus
\* paid_amount.
C14_BreakdownRows ==
    \A start_date \in Dates, end_date \in Dates :
        /\ \A sid \in StudentIds :
              LET st == student_get_statement(sid, start_date, end_date, TRUE)
              IN st.found =>
                    BreakdownOf(st.invoices,
                                EligibleForStudent(sid, start_date, end_date))
        /\ \A sc \in SchoolIds :
              LET st == school_get_statement(sc, start_date, end_date, TRUE)
                  ac == get_school_statement(sc, start_date, end_date, TRUE)
                  eligible == EligibleForSchool(sc, start_date, end_date)
              IN /\ st.found => BreakdownOf(st.invoices, eligible)
                 /\ ac.found => BreakdownOf(ac.invoices, eligible)

\* a student's breakdown has a row of an unpaid invoice and a row of a partly
\* paid one
C14_Witness ==
    \E sid \in StudentIds :
        LET st == student_get_statement(sid, 1, MaxDate, TRUE)
        IN /\ st.found
           /\ \E r \in st.invoices : r.paid_amount = 0 /\ r.pending_amount > 0
           /\ \E r \in st.invoices : r.paid_amount > 0 /\ r.pending_amount > 0

\* the invoices of student s that a school statement counts
StudentEligible(s, start_date, end_date) ==
    {i \in EligibleForStudent(s, start_date, end_date) : ~students[s].deleted}

\* C15: student_count of a school statement is the number of non-soft-deleted
\* students of the school, for every date range and whatever invoices
\* exist; a step that soft-deletes a student lowers the count of the
\* student's school by one and takes the student's invoices and their
\* payments out of the school's totals and breakdown, leaving the rest.
C15_StudentCount ==
    /\ [](\A sc \in SchoolIds, start_date \in Dates, end_date \in Dates,
             inc \in BOOLEAN :
             LET st == school_get_statement(sc, start_date, end_date, inc)
                 ac == get_school_statement(sc, start_date, end_date, inc)
                 n == Cardinality({s \in StudentIds :
                          students[s].school_id = sc /\ ~students[s].deleted})
             IN /\ st.found => st.student_count = n
                /\ ac.found => ac.student_count = n)
    /\ [][\A s \in StudentIds, start_date \in Dates, end_date \in Dates :
            (delete_student(s) /\ ~students[s].deleted)
            => LET sc == students[s].school_id
                   gone == StudentEligible(s, start_date, end_date)
                   invoiced == SumOver(gone, invoices, "total_amount")
                   paid == SumOver(PaymentsOf(gone), payments, "amount")
                   st == school_get_statement(sc, start_date, end_date, TRUE)
                   ac == get_school_statement(sc, start_date, end_date, TRUE)
               IN /\ student_count(sc)' = student_count(sc) - 1
                  /\ \A other \in SchoolIds \ {sc} :
                        student_count(other)' = student_count(other)
                  /\ st.found =>
                        /\ st'.found
                        /\ st'.student_count = st.student_count - 1
                        /\ st'.summary = Lowered(st.summary, invoiced, paid)
                        /\ st'.invoices =
                              {r \in st.invoices : r.invoice_id \notin gone}
                  /\ ac.found =>
                        /\ ac'.found
                        /\ ac'.student_count = ac.student_count - 1
                        /\ ac'.summary = Lowered(ac.summary, invoiced, paid)
                        /\ ac'.invoices =
                              {r \in ac.invoices : r.invoice_id \notin gone}
         ]_vars

\* a student with a partly paid invoice was soft-deleted while the other
\* student of the school, who has an invoice too, and the school were not
C15_Witness ==
    \E s \in StudentIds, t \in StudentIds :
        /\ students[s].deleted /\ ~students[t].deleted
        /\ students[s].school_id = students[t].school_id
        /\ ~schools[students[s].school_id].deleted
        /\ \E i \in Invoices : /\ invoices[i].student_id = s
                               /\ invoices[i].status # "cancelled"
                               /\ PaidSum(payments, i) > 0
        /\ \E j \in Invoices : invoices[j].student_id = t
        /\ school_get_statement(students[s].school_id, 1, MaxDate, FALSE).student_count = 1

\* ======================================================================
\* Properties of statement requests (SpecStatementRequests)
\* ======================================================================
NoStudent(sid) == sid \notin DOMAIN students \/ students[sid].deleted

NoSchool(sc) == sc \notin DOMAIN schools \/ schools[sc].deleted

\* C16: a statement for a student or a school that does not exist or is
\* soft-deleted is the not-found result, for every date range and either value
\* of include_invoices, and the request leaves schools, students, invoices,
\* items and payments unchanged.
C16_StatementNotFound ==
    /\ [](\A start_date \in Dates, end_date \in Dates, inc \in BOOLEAN :
             /\ \A sid \in StudentPathIds :
                   NoStudent(sid) =>
                       student_get_statement(sid, start_date, end_date, inc) = NotFound
             /\ \A sc \in SchoolPathIds :
                   NoSchool(sc) =>
                       /\ school_get_statement(sc, start_date, end_date, inc) = NotFound
                       /\ get_school_statement(sc, start_date, end_date, inc) = NotFound)
    /\ [][\A inc \in BOOLEAN :
            /\ \A sid \in StudentPathIds :
                  (/\ get_student_account_statement(sid, 1, MaxDate, inc)
                   /\ NoStudent(sid))
                  => /\ last'.outcome = "statement_not_found"
                     /\ UNCHANGED <<schools, students, invoices, items, payments>>
            /\ \A sc \in SchoolPathIds :
                  (/\ get_school_account_statement(sc, 1, MaxDate, inc)
                   /\ NoSchool(sc))
                  => /\ last'.outcome = "statement_not_found"
                     /\ UNCHANGED <<schools, students, invoices, items, payments>>
         ]_vars

\* a statement request was answered not-found while a soft-deleted student
\* with a paid-on invoice and a soft-deleted school are in the store
C16_Witness ==
    /\ last.outcome = "statement_not_found"
    /\ \E s \in StudentIds :
          /\ students[s].deleted
          /\ \E i \in Invoices : invoices[i].student_id = s /\ PaidSum(payments, i) > 0
    /\ \E sc \in SchoolIds : schools[sc].deleted

C18_CreateInvoice ==
    [][\A st \in {Unset, "pending", "paid"}, its \in NewItemLists :
        (create_invoice(1, 1, st, its) /\ invoice_valid(its))
        => LET n == Len(invoices) + 1
               new == (Len(items) + 1)..(Len(items) + Len(its))
           IN /\ Len(invoices') = n
              /\ Len(items') = Len(items) + Len(its)
              /\ \A k \in 1..Len(its) :
                    LET it == items'[Len(items) + k] IN
                    /\ it.invoice_id = n
                    /\ ~it.deleted
                    /\ it.quantity = its[k].quantity
                    /\ it.total_amount * Scale = its[k].quantity * its[k].unit_price
              /\ invoices'[n].total_amount = SumOver(new, items', "total_amount")
              /\ invoices'[n].status = IF st = Unset THEN "pending" ELSE st
      ]_vars

Malformed(x) == x.quantity <= 0 \/ x.unit_price < 0

StoreSame == UNCHANGED <<schools, students, invoices, items, payments>>

\* the malformed requests among the request inputs
MalformedItems == {x \in ItemInputs : Malformed(x)}

MalformedLists ==
    {its \in NewItemLists : its = <<>> \/ \E k \in 1..Len(its) : Malformed(its[k])}

MalformedAmounts == {a \in Amounts : a <= 0}

\* C19: a request with an item of quantity <= 0 or unit price < 0, with an empty
\* item list, or with a payment amount <= 0 is answered with a validation
\* failure and leaves invoices, items and payments (and the roster)
\* unchanged.
C19_ValidationBeforeMutation ==
    [][/\ \A st \in {Unset, "pending", "paid"}, its \in MalformedLists :
            create_invoice(1, 1, st, its)
            => last'.outcome = "validation_error" /\ StoreSame
       /\ \A i \in InvoiceIds, x \in MalformedItems :
            add_invoice_item(i, x)
            => last'.outcome = "validation_error" /\ StoreSame
       /\ \A i \in InvoiceIds, it \in ItemIds, x \in MalformedItems :
            update_invoice_item(i, it, x)
            => last'.outcome = "validation_error" /\ StoreSame
       /\ \A i \in InvoiceIds, a \in MalformedAmounts :
            create_payment(i, a, 1)
            => last'.outcome = "validation_error" /\ StoreSame
      ]_vars

\* a malformed request was rejected while invoices, items and payments exist
C19_Witness ==
    /\ last.outcome = "validation_error"
    /\ Len(invoices) > 0
    /\ Len(items) > 1
    /\ Len(payments) > 0

\* C20: cancelInvoice on an existing invoice sets its status to CANCELLED
\* whatever the status was (PENDING, PAID, OVERDUE or CANCELLED) and changes
\* nothing else: the invoice's other fields, every other invoice, the items
\* and the payments are as before.
C20_CancelFrame ==
    [][\A i \in InvoiceIds :
        (cancel_invoice(i) /\ get_by_id(invoices, i))
        => /\ invoices' = [invoices EXCEPT ![i].status = "cancelled"]
           /\ invoices'[i].total_amount = invoices[i].total_amount
           /\ items' = items
           /\ payments' = payments
           /\ last'.outcome = "ok"
      ]_vars

\* a cancelled invoice that was paid in full, next to an invoice with another
\* status, after an accepted request
C20_Witness ==
    /\ last.outcome = "ok"
    /\ \E i \in Invoices, j \in Invoices :
          /\ invoices[i].status = "cancelled"
          /\ PaidSum(payments, i) = invoices[i].total_amount
          /\ PaidSum(payments, i) > 0
          /\ invoices[j].status = "overdue"

\* every invoice keeps its total_amount and no invoice is added
TotalsSame ==
    /\ Len(invoices') = Len(invoices)
    /\ \A i \in Invoices : invoices'[i].total_amount = invoices[i].total_amount

\* C21: total_amount is written only by createInvoice and by the
\* recalculation of addItem, updateItem and deleteItem: a step of
\* updateInvoice, cancelInvoice or createPayment leaves every total_amount and
\* the items unchanged, and a step that changes the total_amount of an
\* existing invoice is a step of addItem, updateItem or deleteItem that
\* writes the recalculated total.
C21_TotalAmountWriters ==
    [][/\ (TotalsSame /\ items' = items)
          \/ ~(UpdateInvoice \/ CancelInvoice \/ CreatePayment)
       /\ \A i \in Invoices :
             invoices'[i].total_amount # invoices[i].total_amount
             => /\ AddItem \/ UpdateItem \/ DeleteItem
                /\ invoices'[i].total_amount = recalculate_total(items', i)
      ]_vars

\* an invoice with items and payments went through updateInvoice (only it
\* sets OVERDUE) and another one was cancelled, and both have their total
C21_Witness ==
    /\ last.outcome = "ok"
    /\ \E i \in Invoices, j \in Invoices :
          /\ invoices[i].status = "overdue"
          /\ PaidSum(payments, i) > 0
          /\ invoices[i].total_amount = LiveItemSum(items, i)
          /\ invoices[j].status = "cancelled"
          /\ invoices[j].total_amount > 0

\* C22: payments are append-only: every step leaves each existing payment
\* (its invoice, amount, date and deleted mark) as it was, so that for every
\* invoice the sum of its non-deleted payments never decreases.
C22_PaymentsAppendOnly ==
    [][/\ Len(payments') >= Len(payments)
       /\ \A k \in 1..Len(payments) : payments'[k] = payments[k]
       /\ \A i \in Invoices : PaidSum(payments', i) >= PaidSum(payments, i)
      ]_vars

\* an invoice with two payments was cancelled and then had an item changed
C22_Witness ==
    \E i \in Invoices :
        /\ invoices[i].status = "cancelled"
        /\ Cardinality({k \in 1..Len(payments) : payments[k].invoice_id = i}) = 2
        /\ PaidSum(payments, i) > invoices[i].total_amount

\* ======================================================================
\* Properties of the payment listing (SpecListPayments)
\* ======================================================================
\* C23: a listing of an invoice's payments holds exactly the non-deleted
\* payments of that invoice, each once and none of another invoice, in the
\* order of their creation (a payment created earlier comes first).
C23_ListPaymentsInCreationOrder ==
    last.outcome = "payments" =>
        LET body == last.body
            mine == {k \in 1..Len(payments) :
                        payments[k].invoice_id = last.invoice /\ ~payments[k].deleted}
        IN /\ {body[n] : n \in 1..Len(body)} = mine
           /\ Len(body) = Cardinality(mine)
           /\ \A a \in 1..Len(body), b \in 1..Len(body) : a < b => body[a] < body[b]

\* ======================================================================
\* Properties of recalculate_total (SpecRecalculate)
\* ======================================================================
\* C24: recalculate_total is idempotent: in the state a call leaves behind, a
\* second call on the same invoice computes the total_amount the first one
\* wrote, and a call changes no item, no payment and no other invoice.
C24_RecalculateIdempotent ==
    [][\A i \in InvoiceIds :
        recalculate(i)
        => /\ recalculate_total(items, i)' = invoices'[i].total_amount
           /\ invoices' = [invoices EXCEPT ![i].total_amount = invoices'[i].total_amount]
           /\ items' = items
           /\ payments' = payments
      ]_vars

\* recalculate_total was called on an invoice that has a soft-deleted item,
\* a live item and a payment
C24_Witness ==
    /\ last.outcome = "recalculated"
    /\ \E i \in Invoices :
          /\ \E k \in 1..Len(items) : items[k].invoice_id = i /\ items[k].deleted
          /\ invoices[i].total_amount = LiveItemSum(items, i)
          /\ invoices[i].total_amount > 0
          /\ PaidSum(payments, i) > 0

C26_PaidOnlyIfPaidInFull ==
    \A i \in Invoices :
        invoices[i].status = "paid" => PaidSum(payments, i) = invoices[i].total_amount

\* ======================================================================
\* Properties of concurrent requests, continued (SpecItems)
\* ======================================================================
\* C27: under every interleaving of concurrent deleteItem requests on the
\* items of an invoice, the committed items of the invoice include at least
\* one non-deleted item: two requests on its two remaining items never both
\* commit.
C27_ConcurrentDeleteKeepsAnItem ==
    \A i \in Invoices : Cardinality(LiveItems(items, i)) >= 1

\* ======================================================================
\* Properties of the statements over the invoice operations (Spec)
\* ======================================================================
\* C28: in every statement generated in a reachable state, for every date
\* range, summary.total_pending is non-negative and so is the pending_amount
\* of every breakdown row.
C28_PendingNonNegative ==
    \A start_date \in Dates, end_date \in Dates :
        /\ \A sid \in StudentIds :
              LET st == student_get_statement(sid, start_date, end_date, TRUE)
              IN st.found => /\ st.summary.total_pending >= 0
                             /\ \A r \in st.invoices : r.pending_amount >= 0
        /\ \A sc \in SchoolIds :
              LET st == school_get_statement(sc, start_date, end_date, TRUE)
                  ac == get_school_statement(sc, start_date, end_date, TRUE)
              IN /\ st.found => /\ st.summary.total_pending >= 0
                                /\ \A r \in st.invoices : r.pending_amount >= 0
                 /\ ac.found => /\ ac.summary.total_pending >= 0
                                /\ \A r \in ac.invoices : r.pending_amount >= 0

\* ======================================================================
\* Properties of the statements, continued (SpecStatements)
\* ======================================================================
\* the sum of one field over the rows of a breakdown
RECURSIVE RowsTotal(_, _)
RowsTotal(rows, field) ==
    IF rows = {} THEN 0
    ELSE LET r == CHOOSE x \in rows : TRUE
         IN r[field] + RowsTotal(rows \ {r}, field)

\* the rows of a statement add up to its summary
RowsMatchSummary(st) ==
    /\ RowsTotal(st.invoices, "total_amount") = st.summary.total_invoiced
    /\ RowsTotal(st.invoices, "paid_amount") = st.summary.total_paid
    /\ RowsTotal(st.invoices, "pending_amount") = st.summary.total_pending

\* C29: in every store state, a statement generated with the breakdown
\* requested is self-consistent in student and in school scope: the rows'
\* total_amount, paid_amount and pending_amount add up to
\* summary.total_invoiced, summary.total_paid and summary.total_pending.
C29_RowsAddUpToSummary ==
    \A start_date \in Dates, end_date \in Dates :
        /\ \A sid \in StudentPathIds :
              LET st == student_get_statement(sid, start_date, end_date, TRUE)
              IN st.found => RowsMatchSummary(st)
        /\ \A sc \in SchoolPathIds :
              LET st == school_get_statement(sc, start_date, end_date, TRUE)
                  ac == get_school_statement(sc, start_date, end_date, TRUE)
              IN /\ st.found => RowsMatchSummary(st)
                 /\ ac.found => RowsMatchSummary(ac)

\* C29 witness: the school statement and a student statement over every date
\* have two rows each, one row with payments and one without, and an amount
\* still pending
C29_Witness ==
    LET ac == get_school_statement(1, 1, MaxDate, TRUE)
        st == student_get_statement(1, 1, MaxDate, TRUE)
    IN /\ ac.found /\ st.found
       /\ Cardinality(ac.invoices) = 2
       /\ Cardinality(st.invoices) = 2
       /\ ac.summary.total_paid > 0
       /\ ac.summary.total_pending > 0
       /\ st.summary.total_paid > 0
       /\ \E r \in st.invoices : r.paid_amount = 0

\* C30: in every store state, for every school id, date range and
\* includeInvoices flag, AccountStatementService.get_school_statement and
\* SchoolStatementService.get_statement return the same result: both not
\* found or the same school_id, period, student_count, totals and breakdown
\* rows (rows compared as a collection, neither query orders them).
C30_SchoolStatementsAgree ==
    \A sc \in SchoolPathIds, start_date \in Dates, end_date \in Dates,
       include_invoices \in BOOLEAN :
        get_school_statement(sc, start_date, end_date, include_invoices)
            = school_get_statement(sc, start_date, end_date, include_invoices)

\* C30 witness: the school statement has a row with payments, while a
\* cancelled invoice of the school that has payments is left out
C30_Witness ==
    LET ac == get_school_statement(1, 1, MaxDate, TRUE)
    IN /\ ac.found
       /\ \E r \in ac.invoices : r.paid_amount > 0
       /\ \E i \in 1..Len(invoices) :
             /\ invoices[i].status = "cancelled"
             /\ payments_sum(payments, {i}) > 0
             /\ students[invoices[i].student_id].school_id = 1
             /\ ~students[invoices[i].student_id].deleted

====
